---- MODULE Spec2Model ----
(***************************************************************************)
(* Model of the dedup iterator adapters: the consecutive adapters of       *)
(* dedup.rs and the global adapters of hashable.rs, ordable.rs and         *)
(* noncon.rs, each in its plain, predicate (by) and key variant.           *)
(***************************************************************************)
EXTENDS Integers, Sequences, FiniteSets, TLC

\* Longest scripted source sequence.
MaxLen == 3

\* Production requests made on one adapter: enough to drain the longest
\* source and to ask again after the end.
MaxRequests == MaxLen + 2

(***************************************************************************)
(* Values.  An item is a record <<id, other>> like the struct Test of the  *)
(* tests; Option<T> is None or Some(x).                                    *)
(***************************************************************************)
None == <<>>
Some(x) == <<x>>
Unwrap(o) == o[1]

Ids == 0..1
Others == 0..1
Item == Ids \X Others

VARIABLES
  eqMode,     \* the item type's PartialEq/Eq/Ord/Hash: "derived" or "by_id"
  input,      \* what the source sequence answers to its successive next() calls
  strategy,   \* "none" before construction, then "dedup", "hash", "ord", "noncon"
  variant,    \* "plain", "by", "key"
  function,   \* the caller's closure: a predicate (by), a key function (key)
  iterator,   \* field iterator: what the source has still to answer
  current,    \* field current of Dedup, DedupBy, DedupByKey
  seen,       \* field seen of the global adapters
  returned,   \* the values the adapter's next() returned, in order
  pulls,      \* how many times the source's next() has been called
  cyclic,     \* the source repeats its answers without end (an infinite source)
  pc,         \* "idle" between calls, else the loop a call of next() is in
  folded      \* the accumulator of try_fold while a call is in that loop

vars == <<eqMode, input, strategy, variant, function, iterator, current, seen,
          returned, pulls, cyclic, pc, folded>>

(***************************************************************************)
(* The item type's own equality and order.  "derived" is #[derive]: all    *)
(* fields are compared; "by_id" is a hand-written impl comparing the id    *)
(* only (Eq, Ord and Hash agreeing with it).                               *)
(***************************************************************************)
EqModes == {"derived", "by_id"}

ItemEq(a, b) == IF eqMode = "derived" THEN a = b ELSE a[1] = b[1]

Sign(n) == IF n < 0 THEN -1 ELSE IF n > 0 THEN 1 ELSE 0

ItemCmp(a, b) ==
  IF a[1] # b[1] THEN Sign(a[1] - b[1])
  ELSE IF eqMode = "derived" THEN Sign(a[2] - b[2]) ELSE 0

(***************************************************************************)
(* The caller's closures.                                                  *)
(***************************************************************************)
Predicates == {"always", "eq", "both_id0", "less", "share", "same_other"}

KeyFunctions == {"id", "const", "other"}

equivalence(f, a, b) ==
  CASE f = "always"     -> TRUE
    [] f = "eq"         -> ItemEq(a, b)
    [] f = "both_id0"   -> a[1] = 0 /\ b[1] = 0
    [] f = "less"       -> a[2] < b[2]
    [] f = "share"      -> a[1] = b[1] \/ a[2] = b[2]
    [] f = "same_other" -> a[2] = b[2]

key_function(f, a) ==
  CASE f = "id"    -> a[1]
    [] f = "const" -> 0
    [] f = "other" -> a[2]

(***************************************************************************)
(* The source sequence: an Iterator whose next() answers the next entry of *)
(* its script, and None once the script is used up.  A script may hold     *)
(* None before its end: Iterator does not promise that next() keeps        *)
(* answering None after the first None.                                    *)
(***************************************************************************)
Answers == {None} \cup {Some(x) : x \in Item}

Sources == UNION {[1..n -> Answers] : n \in 0..MaxLen}

Iterator_next(it) ==
  IF it = <<>> THEN [item |-> None, rest |-> <<>>]
  ELSE [item |-> Head(it), rest |-> Tail(it)]

(***************************************************************************)
(* dedup.rs: the consecutive adapters.  try_fold is Iterator::try_fold     *)
(* with the closure of next(): acc is the pending item, n counts the       *)
(* source's next() calls.                                                  *)
(***************************************************************************)

\* The closure keeps the pending item on a match: first of a run.
RECURSIVE Dedup_try_fold_first(_, _, _)
Dedup_try_fold_first(acc, it, n) ==
  LET s == Iterator_next(it) IN
  IF s.item = None
  THEN [ret |-> acc, current |-> None, iterator |-> s.rest, pulls |-> n + 1]
  ELSE LET next == Unwrap(s.item) IN
       IF ItemEq(acc, next)
       THEN Dedup_try_fold_first(acc, s.rest, n + 1)
       ELSE [ret |-> acc, current |-> Some(next), iterator |-> s.rest,
             pulls |-> n + 1]

RECURSIVE Dedup_try_fold(_, _, _)
Dedup_try_fold(acc, it, n) ==
  LET s == Iterator_next(it) IN
  IF s.item = None
  THEN [ret |-> acc, current |-> None, iterator |-> s.rest, pulls |-> n + 1]
  ELSE LET next == Unwrap(s.item) IN
       IF ItemEq(acc, next)
       THEN Dedup_try_fold(next, s.rest, n + 1)
       ELSE [ret |-> acc, current |-> Some(next), iterator |-> s.rest,
             pulls |-> n + 1]

\* take()? replaced by take().unwrap_or_default(): an empty pending slot
\* starts a run from the default item.
Dedup_next_default(it, cur) ==
  LET r == Dedup_try_fold(IF cur = None THEN <<0, 0>> ELSE Unwrap(cur), it, 0) IN
  [ret |-> Some(r.ret), current |-> r.current, iterator |-> r.iterator,
   pulls |-> r.pulls]

Dedup_next(it, cur) ==
  IF cur = None
  THEN [ret |-> None, current |-> None, iterator |-> it, pulls |-> 0]
  ELSE LET r == Dedup_try_fold(Unwrap(cur), it, 0) IN
       [ret |-> Some(r.ret), current |-> r.current, iterator |-> r.iterator,
        pulls |-> r.pulls]

\* Construction without the first pull.
dedup_lazy(it) ==
  [current |-> None, iterator |-> it, pulls |-> 0]

dedup(it) ==
  LET s == Iterator_next(it) IN
  [current |-> s.item, iterator |-> s.rest, pulls |-> 1]

\* The match arms of the closure swapped: a mismatch continues the run.
RECURSIVE DedupBy_try_fold_swapped(_, _, _, _)
DedupBy_try_fold_swapped(f, acc, it, n) ==
  LET s == Iterator_next(it) IN
  IF s.item = None
  THEN [ret |-> acc, current |-> None, iterator |-> s.rest, pulls |-> n + 1]
  ELSE LET next == Unwrap(s.item) IN
       IF ~equivalence(f, acc, next)
       THEN DedupBy_try_fold_swapped(f, next, s.rest, n + 1)
       ELSE [ret |-> acc, current |-> Some(next), iterator |-> s.rest,
             pulls |-> n + 1]

RECURSIVE DedupBy_try_fold(_, _, _, _)
DedupBy_try_fold(f, acc, it, n) ==
  LET s == Iterator_next(it) IN
  IF s.item = None
  THEN [ret |-> acc, current |-> None, iterator |-> s.rest, pulls |-> n + 1]
  ELSE LET next == Unwrap(s.item) IN
       IF equivalence(f, acc, next)
       THEN DedupBy_try_fold(f, next, s.rest, n + 1)
       ELSE [ret |-> acc, current |-> Some(next), iterator |-> s.rest,
             pulls |-> n + 1]

DedupBy_next(f, it, cur) ==
  IF cur = None
  THEN [ret |-> None, current |-> None, iterator |-> it, pulls |-> 0]
  ELSE LET r == DedupBy_try_fold(f, Unwrap(cur), it, 0) IN
       [ret |-> Some(r.ret), current |-> r.current, iterator |-> r.iterator,
        pulls |-> r.pulls]

dedup_by(it) ==
  LET s == Iterator_next(it) IN
  [current |-> s.item, iterator |-> s.rest, pulls |-> 1]

\* On a mismatch the two items change places: the new item is returned and
\* the pending one is kept.
RECURSIVE DedupByKey_try_fold_exchanged(_, _, _, _)
DedupByKey_try_fold_exchanged(f, acc, it, n) ==
  LET s == Iterator_next(it) IN
  IF s.item = None
  THEN [ret |-> acc, current |-> None, iterator |-> s.rest, pulls |-> n + 1]
  ELSE LET next == Unwrap(s.item) IN
       IF key_function(f, acc) = key_function(f, next)
       THEN DedupByKey_try_fold_exchanged(f, next, s.rest, n + 1)
       ELSE [ret |-> next, current |-> Some(acc), iterator |-> s.rest,
             pulls |-> n + 1]

RECURSIVE DedupByKey_try_fold(_, _, _, _)
DedupByKey_try_fold(f, acc, it, n) ==
  LET s == Iterator_next(it) IN
  IF s.item = None
  THEN [ret |-> acc, current |-> None, iterator |-> s.rest, pulls |-> n + 1]
  ELSE LET next == Unwrap(s.item) IN
       IF key_function(f, acc) = key_function(f, next)
       THEN DedupByKey_try_fold(f, next, s.rest, n + 1)
       ELSE [ret |-> acc, current |-> Some(next), iterator |-> s.rest,
             pulls |-> n + 1]

DedupByKey_next(f, it, cur) ==
  IF cur = None
  THEN [ret |-> None, current |-> None, iterator |-> it, pulls |-> 0]
  ELSE LET r == DedupByKey_try_fold(f, Unwrap(cur), it, 0) IN
       [ret |-> Some(r.ret), current |-> r.current, iterator |-> r.iterator,
        pulls |-> r.pulls]

dedup_by_key(it) ==
  LET s == Iterator_next(it) IN
  [current |-> s.item, iterator |-> s.rest, pulls |-> 1]

(***************************************************************************)
(* The membership structures of the standard library, as the adapters use  *)
(* them.  A HashSet is a set of stored values, found by the type's Eq; a   *)
(* BTreeSet is the stored values in the type's order, found by Ord; a Vec  *)
(* is the stored values in push order, searched with PartialEq.  insert on *)
(* a set that holds an equal value leaves the stored value as it is.       *)
(* Keys are u8 values, compared as numbers.                                *)
(***************************************************************************)
HashSet_contains(sn, x) == \E old \in sn : ItemEq(old, x)

HashSet_insert(sn, x) == IF HashSet_contains(sn, x) THEN sn ELSE sn \cup {x}

HashSet_iter(sn) == sn

HashSetKey_contains(sn, k) == k \in sn

HashSetKey_insert(sn, k) == sn \cup {k}

BTreeSet_contains(sn, x) == \E i \in 1..Len(sn) : ItemCmp(sn[i], x) = 0

BTreeSet_insert(sn, x) ==
  IF BTreeSet_contains(sn, x) THEN sn
  ELSE LET k == Cardinality({i \in 1..Len(sn) : ItemCmp(sn[i], x) < 0}) IN
       SubSeq(sn, 1, k) \o <<x>> \o SubSeq(sn, k + 1, Len(sn))

BTreeSet_iter(sn) == {sn[i] : i \in 1..Len(sn)}

BTreeSetKey_contains(sn, k) == \E i \in 1..Len(sn) : sn[i] = k

BTreeSetKey_insert(sn, k) ==
  IF BTreeSetKey_contains(sn, k) THEN sn
  ELSE LET j == Cardinality({i \in 1..Len(sn) : sn[i] < k}) IN
       SubSeq(sn, 1, j) \o <<k>> \o SubSeq(sn, j + 1, Len(sn))

Vec_contains(sn, x) == \E i \in 1..Len(sn) : ItemEq(sn[i], x)

Vec_push(sn, x) == Append(sn, x)

Vec_iter(sn) == {sn[i] : i \in 1..Len(sn)}

VecKey_contains(sn, k) == \E i \in 1..Len(sn) : sn[i] = k

(***************************************************************************)
(* hashable.rs: the global adapters over a HashSet.  n counts the source's *)
(* next() calls of one request.                                            *)
(***************************************************************************)
\* contains replaced by remove: a repeated item is taken out of seen again.
RECURSIVE DedupHash_next_toggle(_, _, _)
DedupHash_next_toggle(it, sn, n) ==
  LET s == Iterator_next(it) IN
  IF s.item = None
  THEN [ret |-> None, seen |-> sn, iterator |-> s.rest, pulls |-> n + 1]
  ELSE LET item == Unwrap(s.item) IN
       IF ~HashSet_contains(sn, item)
       THEN [ret |-> Some(item), seen |-> HashSet_insert(sn, item),
             iterator |-> s.rest, pulls |-> n + 1]
       ELSE DedupHash_next_toggle(s.rest,
                                  {old \in sn : ~ItemEq(old, item)}, n + 1)

RECURSIVE DedupHash_next(_, _, _)
DedupHash_next(it, sn, n) ==
  LET s == Iterator_next(it) IN
  IF s.item = None
  THEN [ret |-> None, seen |-> sn, iterator |-> s.rest, pulls |-> n + 1]
  ELSE LET item == Unwrap(s.item) IN
       IF ~HashSet_contains(sn, item)
       THEN [ret |-> Some(item), seen |-> HashSet_insert(sn, item),
             iterator |-> s.rest, pulls |-> n + 1]
       ELSE DedupHash_next(s.rest, sn, n + 1)

dedup_hash(it) ==
  [seen |-> {}, iterator |-> it, pulls |-> 0]

RECURSIVE DedupHashBy_next(_, _, _, _)
DedupHashBy_next(f, it, sn, n) ==
  LET s == Iterator_next(it) IN
  IF s.item = None
  THEN [ret |-> None, seen |-> sn, iterator |-> s.rest, pulls |-> n + 1]
  ELSE LET item == Unwrap(s.item) IN
       IF ~(\E old \in HashSet_iter(sn) : equivalence(f, old, item))
       THEN [ret |-> Some(item), seen |-> HashSet_insert(sn, item),
             iterator |-> s.rest, pulls |-> n + 1]
       ELSE DedupHashBy_next(f, s.rest, sn, n + 1)

dedup_hash_by(it) ==
  [seen |-> {}, iterator |-> it, pulls |-> 0]

\* The key of an emitted item is not stored.
RECURSIVE DedupHashByKey_next_no_insert(_, _, _, _)
DedupHashByKey_next_no_insert(f, it, sn, n) ==
  LET s == Iterator_next(it) IN
  IF s.item = None
  THEN [ret |-> None, seen |-> sn, iterator |-> s.rest, pulls |-> n + 1]
  ELSE LET item == Unwrap(s.item)
           key == key_function(f, item) IN
       IF ~HashSetKey_contains(sn, key)
       THEN [ret |-> Some(item), seen |-> sn,
             iterator |-> s.rest, pulls |-> n + 1]
       ELSE DedupHashByKey_next_no_insert(f, s.rest, sn, n + 1)

RECURSIVE DedupHashByKey_next(_, _, _, _)
DedupHashByKey_next(f, it, sn, n) ==
  LET s == Iterator_next(it) IN
  IF s.item = None
  THEN [ret |-> None, seen |-> sn, iterator |-> s.rest, pulls |-> n + 1]
  ELSE LET item == Unwrap(s.item)
           key == key_function(f, item) IN
       IF ~HashSetKey_contains(sn, key)
       THEN [ret |-> Some(item), seen |-> HashSetKey_insert(sn, key),
             iterator |-> s.rest, pulls |-> n + 1]
       ELSE DedupHashByKey_next(f, s.rest, sn, n + 1)

dedup_hash_by_key(it) ==
  [seen |-> {}, iterator |-> it, pulls |-> 0]

(***************************************************************************)
(* ordable.rs: the global adapters over a BTreeSet.                        *)
(***************************************************************************)
RECURSIVE DedupOrd_next(_, _, _)
DedupOrd_next(it, sn, n) ==
  LET s == Iterator_next(it) IN
  IF s.item = None
  THEN [ret |-> None, seen |-> sn, iterator |-> s.rest, pulls |-> n + 1]
  ELSE LET item == Unwrap(s.item) IN
       IF ~BTreeSet_contains(sn, item)
       THEN [ret |-> Some(item), seen |-> BTreeSet_insert(sn, item),
             iterator |-> s.rest, pulls |-> n + 1]
       ELSE DedupOrd_next(s.rest, sn, n + 1)

dedup_ord(it) ==
  [seen |-> <<>>, iterator |-> it, pulls |-> 0]

RECURSIVE DedupOrdBy_next(_, _, _, _)
DedupOrdBy_next(f, it, sn, n) ==
  LET s == Iterator_next(it) IN
  IF s.item = None
  THEN [ret |-> None, seen |-> sn, iterator |-> s.rest, pulls |-> n + 1]
  ELSE LET item == Unwrap(s.item) IN
       IF ~(\E old \in BTreeSet_iter(sn) : equivalence(f, old, item))
       THEN [ret |-> Some(item), seen |-> BTreeSet_insert(sn, item),
             iterator |-> s.rest, pulls |-> n + 1]
       ELSE DedupOrdBy_next(f, s.rest, sn, n + 1)

dedup_ord_by(it) ==
  [seen |-> <<>>, iterator |-> it, pulls |-> 0]

\* The emitted item is looked at but left in the source (peek for next).
RECURSIVE DedupOrdByKey_next_peek(_, _, _, _)
DedupOrdByKey_next_peek(f, it, sn, n) ==
  LET s == Iterator_next(it) IN
  IF s.item = None
  THEN [ret |-> None, seen |-> sn, iterator |-> s.rest, pulls |-> n + 1]
  ELSE LET item == Unwrap(s.item)
           key == key_function(f, item) IN
       IF ~BTreeSetKey_contains(sn, key)
       THEN [ret |-> Some(item), seen |-> BTreeSetKey_insert(sn, key),
             iterator |-> it, pulls |-> n + 1]
       ELSE DedupOrdByKey_next_peek(f, s.rest, sn, n + 1)

RECURSIVE DedupOrdByKey_next(_, _, _, _)
DedupOrdByKey_next(f, it, sn, n) ==
  LET s == Iterator_next(it) IN
  IF s.item = None
  THEN [ret |-> None, seen |-> sn, iterator |-> s.rest, pulls |-> n + 1]
  ELSE LET item == Unwrap(s.item)
           key == key_function(f, item) IN
       IF ~BTreeSetKey_contains(sn, key)
       THEN [ret |-> Some(item), seen |-> BTreeSetKey_insert(sn, key),
             iterator |-> s.rest, pulls |-> n + 1]
       ELSE DedupOrdByKey_next(f, s.rest, sn, n + 1)

dedup_ord_by_key(it) ==
  [seen |-> <<>>, iterator |-> it, pulls |-> 0]

(***************************************************************************)
(* noncon.rs: the global adapters over a Vec.                              *)
(***************************************************************************)
\* The item is compared with the last entry of seen only.
RECURSIVE DedupNonCon_next_last(_, _, _)
DedupNonCon_next_last(it, sn, n) ==
  LET s == Iterator_next(it) IN
  IF s.item = None
  THEN [ret |-> None, seen |-> sn, iterator |-> s.rest, pulls |-> n + 1]
  ELSE LET item == Unwrap(s.item) IN
       IF ~(sn # <<>> /\ ItemEq(sn[Len(sn)], item))
       THEN [ret |-> Some(item), seen |-> Vec_push(sn, item),
             iterator |-> s.rest, pulls |-> n + 1]
       ELSE DedupNonCon_next_last(s.rest, sn, n + 1)

RECURSIVE DedupNonCon_next(_, _, _)
DedupNonCon_next(it, sn, n) ==
  LET s == Iterator_next(it) IN
  IF s.item = None
  THEN [ret |-> None, seen |-> sn, iterator |-> s.rest, pulls |-> n + 1]
  ELSE LET item == Unwrap(s.item) IN
       IF ~Vec_contains(sn, item)
       THEN [ret |-> Some(item), seen |-> Vec_push(sn, item),
             iterator |-> s.rest, pulls |-> n + 1]
       ELSE DedupNonCon_next(s.rest, sn, n + 1)

dedup_non_con(it) ==
  [seen |-> <<>>, iterator |-> it, pulls |-> 0]

RECURSIVE DedupNonConBy_next(_, _, _, _)
DedupNonConBy_next(f, it, sn, n) ==
  LET s == Iterator_next(it) IN
  IF s.item = None
  THEN [ret |-> None, seen |-> sn, iterator |-> s.rest, pulls |-> n + 1]
  ELSE LET item == Unwrap(s.item) IN
       IF ~(\E old \in Vec_iter(sn) : equivalence(f, old, item))
       THEN [ret |-> Some(item), seen |-> Vec_push(sn, item),
             iterator |-> s.rest, pulls |-> n + 1]
       ELSE DedupNonConBy_next(f, s.rest, sn, n + 1)

dedup_non_con_by(it) ==
  [seen |-> <<>>, iterator |-> it, pulls |-> 0]

RECURSIVE DedupNonConByKey_next(_, _, _, _)
DedupNonConByKey_next(f, it, sn, n) ==
  LET s == Iterator_next(it) IN
  IF s.item = None
  THEN [ret |-> None, seen |-> sn, iterator |-> s.rest, pulls |-> n + 1]
  ELSE LET item == Unwrap(s.item)
           key == key_function(f, item) IN
       IF ~VecKey_contains(sn, key)
       THEN [ret |-> Some(item), seen |-> Vec_push(sn, key),
             iterator |-> s.rest, pulls |-> n + 1]
       ELSE DedupNonConByKey_next(f, s.rest, sn, n + 1)

dedup_non_con_by_key(it) ==
  [seen |-> <<>>, iterator |-> it, pulls |-> 0]

(***************************************************************************)
(* The adapters behind one interface: construction and Iterator::next by   *)
(* strategy and variant, and Iterator::collect, which asks for items until *)
(* the first None.                                                         *)
(***************************************************************************)
Strategies == {"dedup", "hash", "ord", "noncon"}

Globals == {"hash", "ord", "noncon"}

Variants == {"plain", "by", "key"}

WithCurrent(r) ==
  [iterator |-> r.iterator, current |-> r.current, seen |-> <<>>,
   pulls |-> r.pulls]

WithSeen(r) ==
  [iterator |-> r.iterator, current |-> None, seen |-> r.seen,
   pulls |-> r.pulls]

Adapter_new(s, v, it) ==
  CASE s = "dedup" /\ v = "plain"  -> WithCurrent(dedup(it))
    [] s = "dedup" /\ v = "by"     -> WithCurrent(dedup_by(it))
    [] s = "dedup" /\ v = "key"    -> WithCurrent(dedup_by_key(it))
    [] s = "hash" /\ v = "plain"   -> WithSeen(dedup_hash(it))
    [] s = "hash" /\ v = "by"      -> WithSeen(dedup_hash_by(it))
    [] s = "hash" /\ v = "key"     -> WithSeen(dedup_hash_by_key(it))
    [] s = "ord" /\ v = "plain"    -> WithSeen(dedup_ord(it))
    [] s = "ord" /\ v = "by"       -> WithSeen(dedup_ord_by(it))
    [] s = "ord" /\ v = "key"      -> WithSeen(dedup_ord_by_key(it))
    [] s = "noncon" /\ v = "plain" -> WithSeen(dedup_non_con(it))
    [] s = "noncon" /\ v = "by"    -> WithSeen(dedup_non_con_by(it))
    [] s = "noncon" /\ v = "key"   -> WithSeen(dedup_non_con_by_key(it))

Adapter_next(s, v, f, it, cur, sn) ==
  CASE s = "dedup" /\ v = "plain"  -> Dedup_next(it, cur)
    [] s = "dedup" /\ v = "by"     -> DedupBy_next(f, it, cur)
    [] s = "dedup" /\ v = "key"    -> DedupByKey_next(f, it, cur)
    [] s = "hash" /\ v = "plain"   -> DedupHash_next(it, sn, 0)
    [] s = "hash" /\ v = "by"      -> DedupHashBy_next(f, it, sn, 0)
    [] s = "hash" /\ v = "key"     -> DedupHashByKey_next(f, it, sn, 0)
    [] s = "ord" /\ v = "plain"    -> DedupOrd_next(it, sn, 0)
    [] s = "ord" /\ v = "by"       -> DedupOrdBy_next(f, it, sn, 0)
    [] s = "ord" /\ v = "key"      -> DedupOrdByKey_next(f, it, sn, 0)
    [] s = "noncon" /\ v = "plain" -> DedupNonCon_next(it, sn, 0)
    [] s = "noncon" /\ v = "by"    -> DedupNonConBy_next(f, it, sn, 0)
    [] s = "noncon" /\ v = "key"   -> DedupNonConByKey_next(f, it, sn, 0)

RECURSIVE Drain(_, _, _, _, _, _, _)
Drain(s, v, f, it, cur, sn, acc) ==
  LET r == Adapter_next(s, v, f, it, cur, sn) IN
  IF r.ret = None THEN acc
  ELSE Drain(s, v, f, r.iterator,
             IF s = "dedup" THEN r.current ELSE cur,
             IF s = "dedup" THEN sn ELSE r.seen,
             Append(acc, Unwrap(r.ret)))

\* xs.into_iter().adapter(f).collect(), adapter being the method of
\* strategy s and variant v.
Collect(s, v, f, xs) ==
  LET a == Adapter_new(s, v, [i \in 1..Len(xs) |-> Some(xs[i])]) IN
  Drain(s, v, f, a.iterator, a.current, a.seen, <<>>)

(***************************************************************************)
(* The state machine: a source sequence is given; the caller constructs    *)
(* one adapter over it and then asks it for items.                         *)
(***************************************************************************)
Init ==
  /\ eqMode \in EqModes
  /\ input \in Sources
  /\ strategy = "none"
  /\ variant = "none"
  /\ function = "none"
  /\ iterator = input
  /\ current = None
  /\ seen = <<>>
  /\ returned = <<>>
  /\ pulls = 0
  /\ cyclic = FALSE
  /\ pc = "idle"
  /\ folded = None

Constructed(s, v, f, a) ==
  /\ strategy = "none"
  /\ strategy' = s
  /\ variant' = v
  /\ function' = f
  /\ iterator' = a.iterator
  /\ current' = a.current
  /\ seen' = a.seen
  /\ pulls' = pulls + a.pulls
  /\ UNCHANGED <<eqMode, input, returned, cyclic, pc, folded>>

Requested(s, v) ==
  /\ strategy = s
  /\ variant = v
  /\ Len(returned) < MaxRequests

ProducedCurrent(r) ==
  /\ iterator' = r.iterator
  /\ current' = r.current
  /\ returned' = Append(returned, r.ret)
  /\ pulls' = pulls + r.pulls
  /\ UNCHANGED <<eqMode, input, strategy, variant, function, seen, cyclic, pc,
               folded>>

ProducedSeen(r) ==
  /\ iterator' = r.iterator
  /\ seen' = r.seen
  /\ returned' = Append(returned, r.ret)
  /\ pulls' = pulls + r.pulls
  /\ UNCHANGED <<eqMode, input, strategy, variant, function, current, cyclic,
               pc, folded>>

Call_dedup ==
  Constructed("dedup", "plain", "none", WithCurrent(dedup(iterator)))

Call_Dedup_next ==
  /\ Requested("dedup", "plain")
  /\ ProducedCurrent(Dedup_next(iterator, current))

Call_dedup_by ==
  \E f \in Predicates :
    Constructed("dedup", "by", f, WithCurrent(dedup_by(iterator)))

Call_DedupBy_next ==
  /\ Requested("dedup", "by")
  /\ ProducedCurrent(DedupBy_next(function, iterator, current))

Call_dedup_by_key ==
  \E f \in KeyFunctions :
    Constructed("dedup", "key", f, WithCurrent(dedup_by_key(iterator)))

Call_DedupByKey_next ==
  /\ Requested("dedup", "key")
  /\ ProducedCurrent(DedupByKey_next(function, iterator, current))

Call_dedup_hash ==
  Constructed("hash", "plain", "none", WithSeen(dedup_hash(iterator)))

Call_DedupHash_next ==
  /\ Requested("hash", "plain")
  /\ ProducedSeen(DedupHash_next(iterator, seen, 0))

Call_dedup_hash_by ==
  \E f \in Predicates :
    Constructed("hash", "by", f, WithSeen(dedup_hash_by(iterator)))

Call_DedupHashBy_next ==
  /\ Requested("hash", "by")
  /\ ProducedSeen(DedupHashBy_next(function, iterator, seen, 0))

Call_dedup_hash_by_key ==
  \E f \in KeyFunctions :
    Constructed("hash", "key", f, WithSeen(dedup_hash_by_key(iterator)))

Call_DedupHashByKey_next ==
  /\ Requested("hash", "key")
  /\ ProducedSeen(DedupHashByKey_next(function, iterator, seen, 0))

Call_dedup_ord ==
  Constructed("ord", "plain", "none", WithSeen(dedup_ord(iterator)))

Call_DedupOrd_next ==
  /\ Requested("ord", "plain")
  /\ ProducedSeen(DedupOrd_next(iterator, seen, 0))

Call_dedup_ord_by ==
  \E f \in Predicates :
    Constructed("ord", "by", f, WithSeen(dedup_ord_by(iterator)))

Call_DedupOrdBy_next ==
  /\ Requested("ord", "by")
  /\ ProducedSeen(DedupOrdBy_next(function, iterator, seen, 0))

Call_dedup_ord_by_key ==
  \E f \in KeyFunctions :
    Constructed("ord", "key", f, WithSeen(dedup_ord_by_key(iterator)))

Call_DedupOrdByKey_next ==
  /\ Requested("ord", "key")
  /\ ProducedSeen(DedupOrdByKey_next(function, iterator, seen, 0))

Call_dedup_non_con ==
  Constructed("noncon", "plain", "none", WithSeen(dedup_non_con(iterator)))

Call_DedupNonCon_next ==
  /\ Requested("noncon", "plain")
  /\ ProducedSeen(DedupNonCon_next(iterator, seen, 0))

Call_dedup_non_con_by ==
  \E f \in Predicates :
    Constructed("noncon", "by", f, WithSeen(dedup_non_con_by(iterator)))

Call_DedupNonConBy_next ==
  /\ Requested("noncon", "by")
  /\ ProducedSeen(DedupNonConBy_next(function, iterator, seen, 0))

Call_dedup_non_con_by_key ==
  \E f \in KeyFunctions :
    Constructed("noncon", "key", f, WithSeen(dedup_non_con_by_key(iterator)))

Call_DedupNonConByKey_next ==
  /\ Requested("noncon", "key")
  /\ ProducedSeen(DedupNonConByKey_next(function, iterator, seen, 0))

Next ==
  \/ Call_dedup
  \/ Call_Dedup_next
  \/ Call_dedup_by
  \/ Call_DedupBy_next
  \/ Call_dedup_by_key
  \/ Call_DedupByKey_next
  \/ Call_dedup_hash
  \/ Call_DedupHash_next
  \/ Call_dedup_hash_by
  \/ Call_DedupHashBy_next
  \/ Call_dedup_hash_by_key
  \/ Call_DedupHashByKey_next
  \/ Call_dedup_ord
  \/ Call_DedupOrd_next
  \/ Call_dedup_ord_by
  \/ Call_DedupOrdBy_next
  \/ Call_dedup_ord_by_key
  \/ Call_DedupOrdByKey_next
  \/ Call_dedup_non_con
  \/ Call_DedupNonCon_next
  \/ Call_dedup_non_con_by
  \/ Call_DedupNonConBy_next
  \/ Call_dedup_non_con_by_key
  \/ Call_DedupNonConByKey_next

Spec == Init /\ [][Next]_vars

(***************************************************************************)
(* What a caller observes.  collect() stops at the first None the adapter  *)
(* returns; the finite input of a run is what the source answers before    *)
(* its first None.                                                         *)
(***************************************************************************)
FirstNone(os) ==
  IF \E i \in 1..Len(os) : os[i] = None
  THEN CHOOSE i \in 1..Len(os) :
         os[i] = None /\ \A j \in 1..(i - 1) : os[j] # None
  ELSE Len(os) + 1

UpToNone(os) == [i \in 1..(FirstNone(os) - 1) |-> Unwrap(os[i])]

Done == \E i \in 1..Len(returned) : returned[i] = None

Collected == UpToNone(returned)

InputItems == UpToNone(input)

RECURSIVE Somes(_)
Somes(os) ==
  IF os = <<>> THEN <<>>
  ELSE (IF Head(os) = None THEN <<>> ELSE <<Unwrap(Head(os))>>) \o Somes(Tail(os))

RECURSIVE KeepFrom(_, _, _)
KeepFrom(xs, keep, i) ==
  IF i > Len(xs) THEN <<>>
  ELSE (IF i \in keep THEN <<xs[i]>> ELSE <<>>) \o KeepFrom(xs, keep, i + 1)

\* The items of xs at the positions in keep, in the order of xs.
Keep(xs, keep) == KeepFrom(xs, keep, 1)

RECURSIVE IsSubsequence(_, _)
IsSubsequence(a, b) ==
  IF a = <<>> THEN TRUE
  ELSE IF b = <<>> THEN FALSE
  ELSE IF Head(a) = Head(b) THEN IsSubsequence(Tail(a), Tail(b))
  ELSE IsSubsequence(a, Tail(b))

\* The equivalence test E of the running variant.
E(a, b) ==
  CASE variant = "plain" -> ItemEq(a, b)
    [] variant = "by"    -> equivalence(function, a, b)
    [] variant = "key"   -> key_function(function, a) = key_function(function, b)

(***************************************************************************)
(* C1.  Consecutive dedup keeps the last item of every run: the collected  *)
(* output is the list of the x_i with i = n or E(x_i, x_{i+1}) false, in   *)
(* input order, E taking the pending item first and the new item second;   *)
(* between requests the pending item is the item pulled last.              *)
(***************************************************************************)
LastOfRuns(xs) ==
  Keep(xs, {i \in 1..Len(xs) : i = Len(xs) \/ ~E(xs[i], xs[i + 1])})

C1_LastOfRun ==
  strategy = "dedup" =>
    /\ Done => Collected = LastOfRuns(InputItems)
    /\ current # None => pulls <= Len(input) /\ current = input[pulls]

C1_Witness ==
  /\ strategy = "dedup"
  /\ Done
  /\ Len(InputItems) = 3
  /\ Len(Collected) = 2
  /\ Collected[1] # InputItems[1]

(***************************************************************************)
(* C2.  Plain and key variants of the three global strategies: the         *)
(* collected output is the list of the x_i that no earlier x_j equals in   *)
(* key (the item itself for plain), in input order, each the               *)
(* first-occurring item itself.                                            *)
(***************************************************************************)
FirstOccurrences(xs) ==
  Keep(xs, {i \in 1..Len(xs) : \A j \in 1..(i - 1) : ~E(xs[j], xs[i])})

C2_FirstOccurrence ==
  (strategy \in Globals /\ variant \in {"plain", "key"} /\ Done) =>
    Collected = FirstOccurrences(InputItems)

C2_Witness ==
  /\ strategy \in Globals
  /\ variant = "key"
  /\ Done
  /\ Len(InputItems) = 3
  /\ Len(Collected) = 2
  /\ E(InputItems[1], InputItems[3])
  /\ InputItems[1] # InputItems[3]

(***************************************************************************)
(* C3.  Predicate variant of every global strategy: an item is emitted if  *)
(* and only if the predicate is false of (e, x) for every item e emitted   *)
(* earlier; with the constant-true predicate a non-empty input gives       *)
(* exactly its first item.                                                 *)
(***************************************************************************)
RECURSIVE EmittedBy(_, _, _)
EmittedBy(f, xs, emitted) ==
  IF xs = <<>> THEN emitted
  ELSE IF \A i \in 1..Len(emitted) : ~equivalence(f, emitted[i], Head(xs))
       THEN EmittedBy(f, Tail(xs), Append(emitted, Head(xs)))
       ELSE EmittedBy(f, Tail(xs), emitted)

C3_AgainstEveryEmitted ==
  (strategy \in Globals /\ variant = "by" /\ Done) =>
    /\ Collected = EmittedBy(function, InputItems, <<>>)
    /\ (function = "always" /\ InputItems # <<>>) =>
         Collected = <<InputItems[1]>>

(***************************************************************************)
(* C4.  The global strategies are idempotent: the same strategy, variant   *)
(* and function applied to the collected output gives that output again.   *)
(***************************************************************************)
C4_GlobalIdempotent ==
  (strategy \in Globals /\ Done) =>
    Collect(strategy, variant, function, Collected) = Collected

C4_Witness ==
  /\ strategy \in Globals
  /\ variant = "by"
  /\ Done
  /\ Len(Collected) = 2
  /\ Len(InputItems) = 3

(***************************************************************************)
(* C5.  Consecutive dedup is idempotent when re-applied at once: the same  *)
(* variant and function over the collected output returns it unchanged.    *)
(* C5_ConsecutiveIdempotent is the claim as made, for every predicate;     *)
(* C5_IdempotentEquivalence is the claim for the plain and key variants    *)
(* and for the predicates that are symmetric and transitive.               *)
(***************************************************************************)
SymmetricTransitive(f) ==
  \A a, b, c \in Item :
    /\ equivalence(f, a, b) => equivalence(f, b, a)
    /\ (equivalence(f, a, b) /\ equivalence(f, b, c)) => equivalence(f, a, c)

C5_ConsecutiveIdempotent ==
  (strategy = "dedup" /\ Done) =>
    Collect("dedup", variant, function, Collected) = Collected

C5_IdempotentEquivalence ==
  (/\ strategy = "dedup"
   /\ Done
   /\ variant = "by" => SymmetricTransitive(function)) =>
    Collect("dedup", variant, function, Collected) = Collected

C5_Witness ==
  /\ strategy = "dedup"
  /\ variant = "by"
  /\ function = "both_id0"
  /\ Done
  /\ Len(InputItems) = 3
  /\ Len(Collected) = 2

(***************************************************************************)
(* C6.  Plain consecutive dedup against the plain global strategies: on an *)
(* input where a value occurs at two positions with a different value in   *)
(* between, the consecutive output differs from each global output and     *)
(* still holds that value more than once; on any other input the outputs   *)
(* are equal.  Values are compared with the item type's ==.                *)
(***************************************************************************)
SeqEq(a, b) ==
  Len(a) = Len(b) /\ \A i \in 1..Len(a) : ItemEq(a[i], b[i])

NonAdjacentDuplicates(xs) ==
  {x \in Item : \E i, k, j \in 1..Len(xs) :
     /\ i < k /\ k < j
     /\ ItemEq(xs[i], x) /\ ItemEq(xs[j], x) /\ ~ItemEq(xs[k], x)}

Occurrences(xs, x) == Cardinality({i \in 1..Len(xs) : ItemEq(xs[i], x)})

C6_ConsecutiveVersusGlobal ==
  (strategy = "dedup" /\ variant = "plain" /\ Done) =>
    \A g \in Globals :
      LET global == Collect(g, "plain", "none", InputItems) IN
      IF NonAdjacentDuplicates(InputItems) # {}
      THEN /\ ~SeqEq(Collected, global)
           /\ \A x \in NonAdjacentDuplicates(InputItems) :
                Occurrences(Collected, x) > 1
      ELSE SeqEq(Collected, global)

C6_Witness ==
  /\ strategy = "dedup"
  /\ variant = "plain"
  /\ Done
  /\ NonAdjacentDuplicates(InputItems) # {}
  /\ Len(Collected) = 3

(***************************************************************************)
(* C7.  Exhaustion is permanent: once a request has returned None, every   *)
(* later request on the same adapter returns None, whatever the source     *)
(* answers when it is pulled again after its own None.                     *)
(***************************************************************************)
C7_ExhaustionPermanent ==
  \A i, j \in 1..Len(returned) :
    (i < j /\ returned[i] = None) => returned[j] = None

(***************************************************************************)
(* C8.  Stable output order: the collected output is a subsequence of the  *)
(* input (the same items at strictly increasing positions), and so is      *)
(* everything the adapter has returned of everything the source answers.   *)
(***************************************************************************)
C8_StableOrder ==
  /\ Done => IsSubsequence(Collected, InputItems)
  /\ IsSubsequence(Somes(returned), Somes(input))

C8_Witness ==
  /\ Done
  /\ strategy = "ord"
  /\ Len(InputItems) = 3
  /\ Collected = <<InputItems[1], InputItems[3]>>
  /\ InputItems[2] # InputItems[3]

(***************************************************************************)
(* C9.  The three global strategies produce the identical output sequence  *)
(* for the same variant, function and input.                               *)
(***************************************************************************)
C9_GlobalStrategiesAgree ==
  (strategy \in Globals /\ Done) =>
    \A g \in Globals :
      Collect(g, variant, function, InputItems) = Collected

(***************************************************************************)
(* C10.  Construction: a consecutive adapter has pulled the source exactly *)
(* once and holds the answer as its pending item before any request, so    *)
(* over an empty source it only ever returns None; a global adapter has    *)
(* pulled nothing and starts with empty membership state.                  *)
(***************************************************************************)
C10_ConstructionEagerness ==
  /\ (strategy = "dedup" /\ returned = <<>>) =>
       /\ pulls = 1
       /\ current = Iterator_next(input).item
       /\ iterator = Iterator_next(input).rest
  /\ (strategy = "dedup" /\ Iterator_next(input).item = None) =>
       \A i \in 1..Len(returned) : returned[i] = None
  /\ (strategy \in Globals /\ returned = <<>>) =>
       /\ pulls = 0
       /\ iterator = input
       /\ IF strategy = "hash" THEN seen = {} ELSE seen = <<>>

C10_Witness ==
  /\ strategy = "dedup"
  /\ returned = <<>>
  /\ current # None
  /\ pulls = 1

(***************************************************************************)
(* C11.  An adapter built over an empty source yields an empty output: its *)
(* very first production request returns None.  A source is empty when the *)
(* first answer of its next() is None.                                     *)
(***************************************************************************)
C11_EmptySourceEmptyOutput ==
  (/\ strategy \in Strategies
   /\ Iterator_next(input).item = None
   /\ returned # <<>>) =>
    /\ returned[1] = None
    /\ Collected = <<>>

C11_Witness ==
  /\ strategy \in Strategies
  /\ input = <<>>
  /\ Len(returned) = 2

(***************************************************************************)
(* C12.  Finite production over a finite source, in a single pass.  The    *)
(* source's answers are taken front to back, one per next() call, none     *)
(* twice; a request makes at most one call per item still ahead of the     *)
(* source's end, and the call that finds the end; once the adapter has     *)
(* returned None every item of an input of n items has been pulled; at     *)
(* most n items are collected; and no more than n + 1 requests are needed  *)
(* to get None.  A consecutive adapter never pulls past the source's end.  *)
(***************************************************************************)
Min(a, b) == IF a < b THEN a ELSE b

Consumed == Len(input) - Len(iterator)

SinglePass ==
  /\ iterator = SubSeq(input, Consumed + 1, Len(input))
  /\ Consumed = Min(pulls, Len(input))
  /\ Done => Consumed >= Min(Len(InputItems) + 1, Len(input))
  /\ strategy = "dedup" => pulls <= Len(InputItems) + 1

FiniteProduction ==
  /\ Len(Collected) <= Len(InputItems)
  /\ Len(returned) > Len(InputItems) => Done

RequestPullsAtMostRemaining ==
  pulls' - pulls <= Len(UpToNone(iterator)) + 1

C12_FiniteSinglePass ==
  /\ [](SinglePass /\ FiniteProduction)
  /\ [][RequestPullsAtMostRemaining]_vars

C12_Witness ==
  /\ strategy = "ord"
  /\ variant = "key"
  /\ Done
  /\ Len(InputItems) = 3
  /\ Len(Collected) = 2
  /\ Len(returned) = 3
  /\ pulls = 4

(***************************************************************************)
(* C14.  Membership state of the global strategies: after any requests     *)
(* seen holds exactly one entry per item emitted so far, the item itself   *)
(* (plain and predicate variants) or its key (key variant), and nothing    *)
(* else; for the Vec of Linear-Scan the entries are in emission order.     *)
(***************************************************************************)
Entry(x) == IF variant = "key" THEN key_function(function, x) ELSE x

Emitted == Somes(returned)

EmittedEntries == {Entry(Emitted[i]) : i \in 1..Len(Emitted)}

C14_MembershipExact ==
  /\ strategy = "noncon" =>
       seen = [i \in 1..Len(Emitted) |-> Entry(Emitted[i])]
  /\ strategy = "hash" =>
       seen = EmittedEntries /\ Cardinality(seen) = Len(Emitted)
  /\ strategy = "ord" =>
       /\ {seen[i] : i \in 1..Len(seen)} = EmittedEntries
       /\ Len(seen) = Len(Emitted)

(***************************************************************************)
(* The adapters one source answer at a time, over sources that may be      *)
(* infinite.  A call of next() is taken apart into its start and the       *)
(* passes of its loop (the closure of try_fold in dedup.rs, the body of    *)
(* while let in the other files); the source is a finite sequence or one   *)
(* that starts over at its end without ever answering None.                *)
(***************************************************************************)

\* Longest sequence an infinite source repeats.
MaxCycle == 2

\* In the loop of a call pulls is counted modulo this, so that a call that
\* never returns is a cycle of loop steps.
PullModulus == 2 * MaxLen + 1

CycleSources == UNION {[1..n -> {Some(x) : x \in Item}] : n \in 0..MaxCycle}

Closures(v) ==
  CASE v = "plain" -> {"none"}
    [] v = "by"    -> Predicates
    [] v = "key"   -> KeyFunctions

Source_next(it) ==
  IF cyclic /\ it = <<>> /\ input # <<>>
  THEN [item |-> Head(input), rest |-> Tail(input)]
  ELSE Iterator_next(it)

\* The membership test of the running global adapter.
Member(sn, item) ==
  CASE variant = "plain" /\ strategy = "hash"   -> HashSet_contains(sn, item)
    [] variant = "plain" /\ strategy = "ord"    -> BTreeSet_contains(sn, item)
    [] variant = "plain" /\ strategy = "noncon" -> Vec_contains(sn, item)
    [] variant = "by" /\ strategy = "hash" ->
         \E old \in HashSet_iter(sn) : equivalence(function, old, item)
    [] variant = "by" /\ strategy = "ord" ->
         \E old \in BTreeSet_iter(sn) : equivalence(function, old, item)
    [] variant = "by" /\ strategy = "noncon" ->
         \E old \in Vec_iter(sn) : equivalence(function, old, item)
    [] variant = "key" /\ strategy = "hash" ->
         HashSetKey_contains(sn, key_function(function, item))
    [] variant = "key" /\ strategy = "ord" ->
         BTreeSetKey_contains(sn, key_function(function, item))
    [] variant = "key" /\ strategy = "noncon" ->
         VecKey_contains(sn, key_function(function, item))

\* seen after the insert or push of the running global adapter.
Stored(sn, item) ==
  CASE variant \in {"plain", "by"} /\ strategy = "hash" ->
         HashSet_insert(sn, item)
    [] variant \in {"plain", "by"} /\ strategy = "ord" ->
         BTreeSet_insert(sn, item)
    [] variant \in {"plain", "by"} /\ strategy = "noncon" ->
         Vec_push(sn, item)
    [] variant = "key" /\ strategy = "hash" ->
         HashSetKey_insert(sn, key_function(function, item))
    [] variant = "key" /\ strategy = "ord" ->
         BTreeSetKey_insert(sn, key_function(function, item))
    [] variant = "key" /\ strategy = "noncon" ->
         Vec_push(sn, key_function(function, item))

\* One call of the closure of try_fold, or the end of try_fold.
TryFold_step(a, it) ==
  LET s == Source_next(it) IN
  IF s.item = None
  THEN [returns |-> TRUE, ret |-> Some(a), folded |-> None, current |-> None,
        iterator |-> s.rest]
  ELSE LET next == Unwrap(s.item) IN
       IF E(a, next)
       THEN [returns |-> FALSE, ret |-> None, folded |-> Some(next),
             current |-> None, iterator |-> s.rest]
       ELSE [returns |-> TRUE, ret |-> Some(a), folded |-> None,
             current |-> Some(next), iterator |-> s.rest]

\* A duplicate is looked at but left in the source.
WhileLet_step_peek(it, sn) ==
  LET s == Source_next(it) IN
  IF s.item = None
  THEN [returns |-> TRUE, ret |-> None, seen |-> sn, iterator |-> s.rest]
  ELSE LET item == Unwrap(s.item) IN
       IF ~Member(sn, item)
       THEN [returns |-> TRUE, ret |-> Some(item), seen |-> Stored(sn, item),
             iterator |-> s.rest]
       ELSE [returns |-> FALSE, ret |-> None, seen |-> sn, iterator |-> it]

\* One pass of the while let loop.
WhileLet_step(it, sn) ==
  LET s == Source_next(it) IN
  IF s.item = None
  THEN [returns |-> TRUE, ret |-> None, seen |-> sn, iterator |-> s.rest]
  ELSE LET item == Unwrap(s.item) IN
       IF ~Member(sn, item)
       THEN [returns |-> TRUE, ret |-> Some(item), seen |-> Stored(sn, item),
             iterator |-> s.rest]
       ELSE [returns |-> FALSE, ret |-> None, seen |-> sn, iterator |-> s.rest]

\* The adapter has been constructed over its source.
StepInit ==
  /\ eqMode \in EqModes
  /\ input \in CycleSources
  /\ cyclic \in BOOLEAN
  /\ cyclic => input # <<>>
  /\ strategy \in Strategies
  /\ variant \in Variants
  /\ function \in Closures(variant)
  /\ LET a == Adapter_new(strategy, variant, input) IN
       /\ iterator = a.iterator
       /\ current = a.current
       /\ seen = a.seen
       /\ pulls = a.pulls
  /\ returned = <<>>
  /\ pc = "idle"
  /\ folded = None

\* next() is called: the consecutive adapters take the pending item or
\* return None at once, the global ones enter their loop.
Step_call ==
  /\ pc = "idle"
  /\ Len(returned) < MaxRequests
  /\ IF strategy \in Globals
     THEN /\ pc' = "while_let"
          /\ UNCHANGED <<current, folded, returned>>
     ELSE IF current = None
          THEN /\ returned' = Append(returned, None)
               /\ UNCHANGED <<current, folded, pc>>
          ELSE /\ folded' = current
               /\ current' = None
               /\ pc' = "try_fold"
               /\ UNCHANGED returned
  /\ UNCHANGED <<eqMode, input, strategy, variant, function, iterator, seen,
                 pulls, cyclic>>

Step_try_fold ==
  /\ pc = "try_fold"
  /\ LET r == TryFold_step(Unwrap(folded), iterator) IN
       /\ iterator' = r.iterator
       /\ folded' = r.folded
       /\ current' = r.current
       /\ pc' = IF r.returns THEN "idle" ELSE "try_fold"
       /\ returned' = IF r.returns THEN Append(returned, r.ret) ELSE returned
  /\ pulls' = (pulls + 1) % PullModulus
  /\ UNCHANGED <<eqMode, input, strategy, variant, function, seen, cyclic>>

Step_while_let ==
  /\ pc = "while_let"
  /\ LET r == WhileLet_step(iterator, seen) IN
       /\ iterator' = r.iterator
       /\ seen' = r.seen
       /\ pc' = IF r.returns THEN "idle" ELSE "while_let"
       /\ returned' = IF r.returns THEN Append(returned, r.ret) ELSE returned
  /\ pulls' = (pulls + 1) % PullModulus
  /\ UNCHANGED <<eqMode, input, strategy, variant, function, current, folded,
                 cyclic>>

StepNext ==
  \/ Step_call
  \/ Step_try_fold
  \/ Step_while_let

\* A call that has started goes on running: nothing suspends or cancels it.
StepSpec ==
  /\ StepInit
  /\ [][StepNext]_vars
  /\ WF_vars(Step_try_fold)
  /\ WF_vars(Step_while_let)

(***************************************************************************)
(* C13                                                                     *)
(***************************************************************************)

\* The source still holds an item the membership state does not exclude.
Fresh == \E i \in 1..Len(input) : ~Member(seen, Unwrap(input[i]))

\* The source still holds an item that ends the run of the folded one.
Breaks ==
  /\ folded # None
  /\ \E i \in 1..Len(input) : ~E(Unwrap(folded), Unwrap(input[i]))

Running == pc # "idle"

Returns ==
  \/ ~cyclic
  \/ strategy \in Globals /\ Fresh
  \/ strategy = "dedup" /\ variant \in {"plain", "key"} /\ Breaks

Stuck ==
  /\ cyclic
  /\ \/ strategy \in Globals /\ ~Fresh
     \/ strategy = "dedup" /\ variant \in {"plain", "key"} /\ ~Breaks

\* C13 as stated: every request, once started, returns to its caller, for
\* finite and for infinite sources alike.
C13_EveryRequestReturns == Running ~> ~Running

\* C13, amended: a request returns for every finite source; over a source
\* that repeats without end it returns when the source still holds an item
\* that is not a duplicate (one the membership state does not exclude, or
\* one that ends the pending run), and it never returns when a global or a
\* plain or keyed consecutive adapter has only duplicates ahead.
C13_RequestReturnsUnlessOnlyDuplicates ==
  /\ (Running /\ Returns) ~> ~Running
  /\ [][(Running /\ Stuck) => pc' # "idle"]_vars

\* Requests to a global adapter over an endless source have returned twice,
\* each with an item.
C13_Witness ==
  /\ cyclic
  /\ pc = "idle"
  /\ strategy \in Globals
  /\ Len(returned) = 2
  /\ Len(Emitted) = 2

====
